---- MODULE Spec2Model ----
(***************************************************************************)
(* Model of src/proxy.rs of libmedium: the character-offset substring of   *)
(* StringUtils, the route table's get_page, and the three post handlers    *)
(* by_post_id, by_top_level_post and page with the gist fan-out.           *)
(***************************************************************************)
EXTENDS Integers, Sequences, FiniteSets, TLC

VARIABLES
    sub_pc, sub_self, sub_start, sub_len, sub_result,
    pc, handler, path, upstream, id, light_fetches, full_fetches,
    post_data, futs, fstate, outputs, order, issued, joined, gists,
    markup_gists, response

subVars == <<sub_pc, sub_self, sub_start, sub_len, sub_result>>
reqVars == <<pc, handler, path, upstream, id, light_fetches, full_fetches,
             post_data, futs, fstate, outputs, order, issued, joined, gists,
             markup_gists, response>>
vars == <<subVars, reqVars>>

\* Option<T>: None is the empty sequence, Some(x) the one-element sequence.
None == <<>>
Some(x) == <<x>>
IsSome(o) == o # <<>>
Unwrap(o) == o[1]

RECURSIVE SeqsUpTo(_, _)
SeqsUpTo(S, n) ==
    IF n = 0 THEN {<<>>}
    ELSE LET R == SeqsUpTo(S, n - 1)
         IN R \cup {Append(r, x) : r \in {q \in R : Len(q) = n - 1}, x \in S}

(***************************************************************************)
(* StringUtils::substring                                                  *)
(***************************************************************************)
MaxChars == 3
MaxOffset == 4

\* The characters a text is drawn from: one of each UTF-8 width class used.
Chars == {"a", "e_acute", "euro"}

\* The number of bytes of the UTF-8 encoding of c.
Width(c) == CASE c = "a" -> 1 [] c = "e_acute" -> 2 [] c = "euro" -> 3

\* The k-th byte of the encoding of c is the pair <<c, k>>.
CharBytes(c) == [k \in 1..Width(c) |-> <<c, k>>]

\* A byte miscount: every character taken for one byte.
len_utf8_one(c) == 1

\* char::len_utf8 as substring calls it on the characters it steps over.
len_utf8(c) == Width(c)

\* A str is its UTF-8 byte sequence.
RECURSIVE Utf8(_)
Utf8(T) == IF T = <<>> THEN <<>> ELSE CharBytes(Head(T)) \o Utf8(Tail(T))

\* str::chars(): the characters are the leading bytes in order.
RECURSIVE chars(_)
chars(bytes) ==
    IF bytes = <<>> THEN <<>>
    ELSE IF Head(bytes)[2] = 1 THEN <<Head(bytes)[1]>> \o chars(Tail(bytes))
    ELSE chars(Tail(bytes))

\* Chars::next() on the iterator at byte offset it: None at the end,
\* otherwise the character starting there.
ItNext(bytes, it) == IF it >= Len(bytes) THEN None ELSE Some(bytes[it + 1][1])

\* The iterator's offset after that call.
ItAdvance(bytes, it) ==
    IF it >= Len(bytes) THEN it ELSE it + Width(bytes[it + 1][1])

\* First loop: skip start characters, or stop when the text runs out.
\* Returns <<byte_start, it>>.
RECURSIVE FirstLoop(_, _, _, _, _)
FirstLoop(bytes, start, char_pos, byte_start, it) ==
    IF char_pos = start THEN <<byte_start, it>>
    ELSE LET n == ItNext(bytes, it)
         IN IF IsSome(n)
            THEN FirstLoop(bytes, start, char_pos + 1,
                           byte_start + len_utf8(Unwrap(n)),
                           ItAdvance(bytes, it))
            ELSE <<byte_start, it>>

\* The second loop without its end-of-text exit: the missing characters are
\* counted as one byte each.
RECURSIVE SecondLoopUnchecked(_, _, _, _, _)
SecondLoopUnchecked(bytes, len, char_pos, byte_end, it) ==
    IF char_pos = len THEN byte_end
    ELSE LET n == ItNext(bytes, it)
         IN IF IsSome(n)
            THEN SecondLoopUnchecked(bytes, len, char_pos + 1,
                                     byte_end + len_utf8(Unwrap(n)),
                                     ItAdvance(bytes, it))
            ELSE SecondLoopUnchecked(bytes, len, char_pos + 1,
                                     byte_end + 1, it)

\* Second loop: take len characters, or stop when the text runs out.
\* Returns byte_end.
RECURSIVE SecondLoop(_, _, _, _, _)
SecondLoop(bytes, len, char_pos, byte_end, it) ==
    IF char_pos = len THEN byte_end
    ELSE LET n == ItNext(bytes, it)
         IN IF IsSome(n)
            THEN SecondLoop(bytes, len, char_pos + 1,
                            byte_end + len_utf8(Unwrap(n)),
                            ItAdvance(bytes, it))
            ELSE byte_end

\* Byte offset i falls on a character boundary of the str.
IsCharBoundary(bytes, i) ==
    \/ i = 0
    \/ i = Len(bytes)
    \/ i < Len(bytes) /\ bytes[i + 1][2] = 1

\* A panic of the slice, as a value no str equals.
Panic == <<<<"panic", 0>>>>

\* &self[byte_start..byte_end]: panics off a character boundary.
StrIndex(bytes, byte_start, byte_end) ==
    IF /\ byte_start <= byte_end
       /\ IsCharBoundary(bytes, byte_start)
       /\ IsCharBoundary(bytes, byte_end)
    THEN SubSeq(bytes, byte_start + 1, byte_end)
    ELSE Panic

substring(bytes, start, len) ==
    LET first == FirstLoop(bytes, start, 0, 0, 0)
        byte_start == first[1]
        byte_end == SecondLoop(bytes, len, 0, byte_start, first[2])
    IN StrIndex(bytes, byte_start, byte_end)

SubInitVars ==
    /\ sub_pc = "call"
    /\ sub_self \in {Utf8(T) : T \in SeqsUpTo(Chars, MaxChars)}
    /\ sub_start \in 0..MaxOffset
    /\ sub_len \in 0..MaxOffset
    /\ sub_result = None

SubIdle ==
    /\ sub_pc = "unused"
    /\ sub_self = <<>>
    /\ sub_start = 0
    /\ sub_len = 0
    /\ sub_result = None

Substring ==
    /\ sub_pc = "call"
    /\ sub_result' = Some(substring(sub_self, sub_start, sub_len))
    /\ sub_pc' = "returned"
    /\ UNCHANGED <<sub_self, sub_start, sub_len>>
    /\ UNCHANGED reqVars

(***************************************************************************)
(* routes::Proxy                                                           *)
(***************************************************************************)
MaxName == 2

\* Strings of the route table are sequences of tokens; a placeholder is one
\* token.
NameTokens == {"a", "{post}", "{username}"}
Names == SeqsUpTo(NameTokens, MaxName) \ {<<>>}

page_route == <<"/", "{username}", "/", "{post}">>

\* str::replace: every non-overlapping match of pat, left to right.
RECURSIVE replace(_, _, _)
replace(s, pat, to) ==
    IF Len(s) < Len(pat) \/ s = <<>> THEN s
    ELSE IF SubSeq(s, 1, Len(pat)) = pat
         THEN to \o replace(SubSeq(s, Len(pat) + 1, Len(s)), pat, to)
         ELSE <<Head(s)>> \o replace(Tail(s), pat, to)

get_page(username, post) ==
    replace(replace(page_route, <<"{username}">>, username), <<"{post}">>, post)

(***************************************************************************)
(* Post id extraction                                                      *)
(***************************************************************************)
MaxSeg == 3

PathChars == {"-", "a"}
Segments == SeqsUpTo(PathChars, MaxSeg)

\* str::split(ch): the pieces between the separators, at least one piece.
RECURSIVE split(_, _)
split(s, ch) ==
    LET D == {i \in 1..Len(s) : s[i] = ch}
    IN IF D = {} THEN <<s>>
       ELSE LET i == CHOOSE j \in D : \A k \in D : j <= k
            IN <<SubSeq(s, 1, i - 1)>> \o split(SubSeq(s, i + 1, Len(s)), ch)

\* Iterator::next() in the place of last(): the first piece.
first_item(items) == IF items = <<>> THEN None ELSE Some(items[1])

\* Iterator::last()
last(items) == IF items = <<>> THEN None ELSE Some(items[Len(items)])

Handlers == {"by_post_id", "by_top_level_post", "page"}

\* The Option the handler tests: by_post_id takes the path parameter as the
\* id, the other two split it.
post_id_of(h, p) == IF h = "by_post_id" THEN Some(p) ELSE last(split(p, "-"))

\* Every handler fetching the full post.
fetch_kind_full(h) == "full"

\* The upstream call the handler makes for the id.
fetch_kind(h) == IF h = "page" THEN "full" ELSE "light"

(***************************************************************************)
(* Posts                                                                   *)
(***************************************************************************)
MaxParagraphs == 3

GistA == <<"https://", "gist.github.com", "/a">>
GistB == <<"https://", "gist.github.com", "/b">>
Video == <<"https://", "video.example", "/v">>

Iframe(href) == Some([media_resource |-> Some([href |-> href])])

ParagraphKinds ==
    {[type_ |-> "P", iframe |-> None],
     [type_ |-> "IFRAME", iframe |-> None],
     [type_ |-> "IFRAME", iframe |-> Iframe(GistA)],
     [type_ |-> "IFRAME", iframe |-> Iframe(GistB)],
     [type_ |-> "IFRAME", iframe |-> Iframe(Video)]}

Posts == [paragraphs : SeqsUpTo(ParagraphKinds, MaxParagraphs),
          preview_image : {None, Some([id |-> Some(<<"img">>)])}]

\* str::contains on token strings.
contains(s, tok) == \E i \in 1..Len(s) : s[i] = tok

\* The provider test left out: every iframe source is fetched.
is_gist_any(src) == TRUE

\* The test of the iframe source for the gist host.
is_gist(src) == contains(src, "gist.github.com")

\* The loop over the paragraphs: the futures pushed, or a panic of one of
\* the unwraps.
RECURSIVE scan_paragraphs(_, _)
scan_paragraphs(ps, acc) ==
    IF ps = <<>> THEN [panic |-> FALSE, futs |-> acc]
    ELSE LET p == Head(ps)
         IN IF p.type_ = "IFRAME"
            THEN IF ~IsSome(p.iframe) THEN [panic |-> TRUE, futs |-> acc]
                 ELSE IF ~IsSome(Unwrap(p.iframe).media_resource)
                      THEN [panic |-> TRUE, futs |-> acc]
                      ELSE LET src == Unwrap(Unwrap(p.iframe).media_resource).href
                           IN IF is_gist(src)
                              THEN scan_paragraphs(Tail(ps), Append(acc, src))
                              ELSE scan_paragraphs(Tail(ps), acc)
            ELSE scan_paragraphs(Tail(ps), acc)

\* The outcome of AppData::get_gist for a source.
gist_of(src) == [src |-> src]

\* A join that is ready at the first completion.
join_ready_any(fs) == \E i \in 1..Len(fs) : fs[i] = "done"

\* join_all is ready when every future it holds has completed.
join_ready(fs) == \A i \in 1..Len(fs) : fs[i] = "done"

\* Outputs kept in completion order: the output goes to the first free slot.
store_output_push(outs, i, v) ==
    LET free == {j \in 1..Len(outs) : ~IsSome(outs[j])}
        k == CHOOSE j \in free : \A m \in free : j <= m
    IN [outs EXCEPT ![k] = Some(v)]

\* join_all keeps one slot per future, in the order of the futures; a future
\* that completes leaves its output in its own slot.
store_output(outs, i, v) == [outs EXCEPT ![i] = Some(v)]

\* join_all's output: the outputs taken from the slots, in slot order.
RECURSIVE join_output(_)
join_output(outs) ==
    IF outs = <<>> THEN <<>>
    ELSE IF IsSome(Head(outs))
         THEN <<Unwrap(Head(outs))>> \o join_output(Tail(outs))
         ELSE join_output(Tail(outs))

NoResponse == None
Redirect(loc) == Some([status |-> 302, location |-> loc, doc |-> None])
Status(code) == Some([status |-> code, location |-> <<>>, doc |-> None])
Ok(doc) == Some([status |-> 200, location |-> <<>>, doc |-> Some(doc)])

UpstreamOutcomes == {"ok", "not_found", "transport_error"}

ReqIdle ==
    /\ pc = "idle"
    /\ handler = "none"
    /\ path = <<>>
    /\ upstream = "ok"
    /\ id = <<>>
    /\ light_fetches = 0
    /\ full_fetches = 0
    /\ post_data = None
    /\ futs = <<>>
    /\ fstate = <<>>
    /\ outputs = <<>>
    /\ order = <<>>
    /\ issued = <<>>
    /\ joined = FALSE
    /\ gists = None
    /\ markup_gists = None
    /\ response = NoResponse

Init == SubIdle /\ ReqIdle

SubInit == SubInitVars /\ ReqIdle

\* The router hands a request to one of the three post handlers.
Receive(h, seg, up) ==
    /\ pc = "idle"
    /\ pc' = "received"
    /\ handler' = h
    /\ path' = seg
    /\ upstream' = up
    /\ UNCHANGED <<id, light_fetches, full_fetches, post_data, futs, fstate,
                   outputs, order, issued, joined, gists, markup_gists, response>>
    /\ UNCHANGED subVars

\* The handler derives the post id, or answers that there is none.
ExtractId ==
    /\ pc = "received"
    /\ LET post_id == post_id_of(handler, path)
       IN IF IsSome(post_id)
          THEN /\ id' = Unwrap(post_id)
               /\ pc' = "id_extracted"
               /\ UNCHANGED response
          ELSE /\ response' = Status(IF handler = "page" THEN 400 ELSE 404)
               /\ pc' = "responded"
               /\ UNCHANGED id
    /\ UNCHANGED <<handler, path, upstream, light_fetches, full_fetches,
                   post_data, futs, fstate, outputs, order, issued, joined,
                   gists, markup_gists>>
    /\ UNCHANGED subVars

\* The handler calls get_post_light or get_post and suspends on it.
StartFetch ==
    /\ pc = "id_extracted"
    /\ IF fetch_kind(handler) = "light"
       THEN /\ light_fetches' = light_fetches + 1
            /\ pc' = "await_light"
            /\ UNCHANGED full_fetches
       ELSE /\ full_fetches' = full_fetches + 1
            /\ pc' = "await_full"
            /\ UNCHANGED light_fetches
    /\ UNCHANGED <<handler, path, upstream, id, post_data, futs, fstate,
                   outputs, order, issued, joined, gists, markup_gists,
                   response>>
    /\ UNCHANGED subVars

\* get_post_light returns: the redirect is built from its username and slug.
\* The call has no error value: a failed fetch unwinds the handler.
LightFetchDone(username, slug) ==
    /\ pc = "await_light"
    /\ IF upstream = "ok"
       THEN /\ response' = Redirect(get_page(username, slug))
            /\ post_data' = Some([username |-> username, slug |-> slug])
            /\ pc' = "responded"
       ELSE /\ pc' = "panicked"
            /\ UNCHANGED <<response, post_data>>
    /\ UNCHANGED <<handler, path, upstream, id, light_fetches, full_fetches,
                   futs, fstate, outputs, order, issued, joined, gists,
                   markup_gists>>
    /\ UNCHANGED subVars

\* The rest of page once gists is bound: the preview image is unwrapped,
\* apply_markup gets the gists, the document is rendered.
Assemble(post, g) ==
    /\ gists' = g
    /\ IF IsSome(post.preview_image) /\ IsSome(Unwrap(post.preview_image).id)
       THEN /\ markup_gists' = Some(g)
            /\ response' = Ok([id |-> id, gists |-> g])
            /\ pc' = "responded"
       ELSE /\ pc' = "panicked"
            /\ UNCHANGED <<markup_gists, response>>

\* get_post returns: page collects the gist futures and either assembles at
\* once (no futures) or awaits join_all, whose first poll starts them all.
FullFetchDone(post) ==
    /\ pc = "await_full"
    /\ IF upstream # "ok"
       THEN /\ pc' = "panicked"
            /\ UNCHANGED <<post_data, futs, fstate, outputs, issued, joined,
                           gists, markup_gists, response>>
       ELSE /\ post_data' = Some(post)
            /\ LET scan == scan_paragraphs(post.paragraphs, <<>>)
               IN IF scan.panic
                  THEN /\ pc' = "panicked"
                       /\ UNCHANGED <<futs, fstate, outputs, issued, joined,
                                      gists, markup_gists, response>>
                  ELSE /\ futs' = scan.futs
                       /\ IF scan.futs = <<>>
                          THEN /\ Assemble(post, None)
                               /\ UNCHANGED <<fstate, outputs, issued, joined>>
                          ELSE /\ fstate' = [i \in 1..Len(scan.futs) |-> "inflight"]
                               /\ outputs' = [i \in 1..Len(scan.futs) |-> None]
                               /\ issued' = scan.futs
                               /\ joined' = TRUE
                               /\ pc' = "join"
                               /\ UNCHANGED <<gists, markup_gists, response>>
    /\ UNCHANGED <<handler, path, upstream, id, light_fetches, full_fetches,
                   order>>
    /\ UNCHANGED subVars

\* One gist fetch completes.  A failed one has no value to return and unwinds
\* the handler, dropping the others; the last successful one completes
\* join_all and page goes on to assemble.
GistDone(i, ok) ==
    /\ pc = "join"
    /\ i \in 1..Len(futs)
    /\ fstate[i] = "inflight"
    /\ IF ok
       THEN /\ fstate' = [fstate EXCEPT ![i] = "done"]
            /\ outputs' = store_output(outputs, i, gist_of(futs[i]))
            /\ order' = Append(order, i)
            /\ IF join_ready(fstate')
               THEN Assemble(Unwrap(post_data), Some(join_output(outputs')))
               ELSE UNCHANGED <<pc, gists, markup_gists, response>>
       ELSE /\ fstate' = [j \in 1..Len(futs) |->
                            IF j = i THEN "failed"
                            ELSE IF fstate[j] = "inflight" THEN "dropped"
                            ELSE fstate[j]]
            /\ pc' = "panicked"
            /\ UNCHANGED <<outputs, order, gists, markup_gists, response>>
    /\ UNCHANGED <<handler, path, upstream, id, light_fetches, full_fetches,
                   post_data, futs, issued, joined>>
    /\ UNCHANGED subVars

Next ==
    \/ \E h \in Handlers, seg \in Segments, up \in UpstreamOutcomes :
          Receive(h, seg, up)
    \/ ExtractId
    \/ StartFetch
    \/ pc = "await_light" /\ \E username \in Names, slug \in Names :
          LightFetchDone(username, slug)
    \/ pc = "await_full" /\ \E post \in Posts : FullFetchDone(post)
    \/ pc = "join" /\ \E i \in 1..Len(futs), ok \in BOOLEAN : GistDone(i, ok)

Spec == Init /\ [][Next]_vars

SubNext == Substring

SubSpec == SubInit /\ [][SubNext]_vars

(***************************************************************************)
(* Properties                                                              *)
(***************************************************************************)
sub_T == chars(sub_self)
sub_returned == sub_pc = "returned"

\* C1: when start + len is within the character length of the text,
\* substring returns exactly the len characters at character positions
\* start .. start+len-1, whatever the byte widths of the characters.
C1_SubstringExact ==
    (sub_returned /\ sub_start + sub_len <= Len(sub_T)) =>
        /\ Unwrap(sub_result) # Panic
        /\ Unwrap(sub_result) =
               Utf8(SubSeq(sub_T, sub_start + 1, sub_start + sub_len))
        /\ Len(chars(Unwrap(sub_result))) = sub_len

C1_Witness ==
    /\ sub_returned
    /\ sub_start + sub_len <= Len(sub_T)
    /\ sub_start >= 1
    /\ sub_len >= 1
    /\ Width(sub_T[1]) > 1
    /\ Width(sub_T[sub_start + 1]) > 1
    /\ chars(Unwrap(sub_result)) = <<sub_T[sub_start + 1]>>

\* C2: when start + len exceeds the character length of the text, substring
\* does not panic and returns the characters from position start to the end
\* of the text (none when start is at or past the end), whole characters
\* only.
C2_SubstringTruncates ==
    (sub_returned /\ sub_start + sub_len > Len(sub_T)) =>
        /\ Unwrap(sub_result) # Panic
        /\ Unwrap(sub_result) = Utf8(SubSeq(sub_T, sub_start + 1, Len(sub_T)))
        /\ Len(chars(Unwrap(sub_result))) <= sub_len

C2_Witness ==
    /\ sub_returned
    /\ sub_start + sub_len > Len(sub_T)
    /\ sub_start >= 1
    /\ sub_start < Len(sub_T)
    /\ Width(sub_T[Len(sub_T)]) > 1
    /\ Unwrap(sub_result) # <<>>
    /\ Unwrap(sub_result) # sub_self

\* The text after the last '-' of a segment, the whole segment without one.
AfterLastDash(seg) ==
    LET D == {i \in 1..Len(seg) : seg[i] = "-"}
    IN IF D = {} THEN seg
       ELSE SubSeq(seg, (CHOOSE i \in D : \A j \in D : j <= i) + 1, Len(seg))

Responded(code) == IsSome(response) /\ Unwrap(response).status = code

\* C3: in page and by_top_level_post the id is the text after the last '-'
\* of the path segment (the whole segment when it has none), and the no-id
\* answers 400 and 404 are never given.
C3_IdIsLastDashComponent ==
    (handler \in {"page", "by_top_level_post"}) =>
        /\ pc \notin {"idle", "received"} => id = AfterLastDash(path)
        /\ ~Responded(400)
        /\ ~Responded(404)

C3_Witness ==
    /\ handler = "page"
    /\ pc = "id_extracted"
    /\ \E i \in 1..Len(path) : path[i] = "-"
    /\ id # <<>>
    /\ id # split(path, "-")[1]

\* A paragraph of type IFRAME whose media href names the gist host.
Qualifying(p) ==
    /\ p.type_ = "IFRAME"
    /\ IsSome(p.iframe)
    /\ IsSome(Unwrap(p.iframe).media_resource)
    /\ \E i \in 1..Len(Unwrap(Unwrap(p.iframe).media_resource).href) :
          Unwrap(Unwrap(p.iframe).media_resource).href[i] = "gist.github.com"

QualifyingParagraphs == SelectSeq(Unwrap(post_data).paragraphs, Qualifying)

QualifyingSrcs ==
    [i \in 1..Len(QualifyingParagraphs) |->
        Unwrap(Unwrap(QualifyingParagraphs[i].iframe).media_resource).href]

PageHasPost == handler = "page" /\ IsSome(post_data)

C5_OneFetchPerUrl ==
    \A i, j \in 1..Len(issued) : issued[i] = issued[j] => i = j

\* C6: a page request whose post is unknown upstream ends with a 404
\* response and has started no gist fetch.
C6_UnknownPostNotFound ==
    (handler = "page" /\ upstream = "not_found"
        /\ pc \in {"responded", "panicked"}) =>
        /\ Responded(404)
        /\ issued = <<>>

Redirecting == handler \in {"by_post_id", "by_top_level_post"}

\* C7: a redirecting request for a post known upstream is answered 302 with
\* Location "/" + username + "/" + slug for the username and slug the light
\* fetch returned.
C7_RedirectLocation ==
    (Redirecting /\ upstream = "ok" /\ pc = "responded") =>
        /\ Responded(302)
        /\ Unwrap(response).location =
               <<"/">> \o Unwrap(post_data).username
                       \o <<"/">> \o Unwrap(post_data).slug

Phase ==
    CASE pc = "idle" -> "NONE"
      [] pc = "received" -> "RECEIVED"
      [] pc = "id_extracted" -> "ID_EXTRACTED"
      [] pc = "await_light" -> "REDIRECTING"
      [] pc \in {"await_full", "join"} -> "RENDERING"
      [] pc = "responded" -> "RESPONDED"
      [] pc = "panicked" -> "ABORTED"

PhaseEdges ==
    {<<"NONE", "RECEIVED">>,
     <<"RECEIVED", "ID_EXTRACTED">>,
     <<"ID_EXTRACTED", "REDIRECTING">>,
     <<"ID_EXTRACTED", "RENDERING">>,
     <<"REDIRECTING", "RESPONDED">>,
     <<"RENDERING", "RESPONDED">>,
     <<"REDIRECTING", "ABORTED">>,
     <<"RENDERING", "ABORTED">>}

TwoTier ==
    /\ Phase = "REDIRECTING" => Redirecting
    /\ Phase = "RENDERING" => handler = "page"
    /\ Redirecting =>
          /\ full_fetches = 0
          /\ issued = <<>>
          /\ light_fetches =
                (IF Phase \in {"REDIRECTING", "RESPONDED", "ABORTED"}
                 THEN 1 ELSE 0)
    /\ handler = "page" =>
          /\ light_fetches = 0
          /\ full_fetches =
                (IF Phase \in {"RENDERING", "RESPONDED", "ABORTED"}
                 THEN 1 ELSE 0)

C10_GistsInParagraphOrder ==
    (PageHasPost /\ Responded(200) /\ futs # <<>>) =>
        LET expected == [i \in 1..Len(QualifyingSrcs) |->
                            [src |-> QualifyingSrcs[i]]]
        IN /\ markup_gists = Some(Some(expected))
           /\ Unwrap(Unwrap(response).doc).gists = Some(expected)

C10_Witness ==
    /\ PageHasPost
    /\ Responded(200)
    /\ Len(futs) = 3
    /\ futs[1] # futs[3]
    /\ order = <<3, 1, 2>>

====
